---- MODULE Spec2Model ----
(***************************************************************************)
(* A model of web-webpack-plugin's HTML document model (HTMLDocument, its  *)
(* process-wide cache, ensureRequires and serialize), of the tree helpers  *)
(* of util.js, and of AutoWebPlugin's constructor, apply and emit hook.    *)
(*                                                                         *)
(* Object identity is modelled explicitly.  A parse5 tree is an entry of   *)
(* `trees`; the head and the body element of a tree are referred to by     *)
(* [tree, side]; every child node carries a unique id and the reference of *)
(* its parentNode.  A HTMLDocument object holds REFERENCES to its headNode *)
(* and bodyNode, so whether two documents share child lists follows from   *)
(* what clone() copies and is not assumed.                                 *)
(*                                                                         *)
(* Strings are sequences of tokens: a src/href value is the sequence of    *)
(* its dot-separated segments (<<"a", "js">> is "a.js"), a text value or   *)
(* comment payload is the sequence of its pieces, " " and "\n" being the   *)
(* whitespace pieces.                                                      *)
(***************************************************************************)
EXTENDS Integers, Sequences, FiniteSets, TLC

VARIABLES
    trees,            \* parse5 trees: Seq([head: Seq(node), body: Seq(node)])
    docs,             \* the HTMLDocument objects handed to callers, in order
    cache,            \* HTMLDocumentCacheMap: key -> prototype document
    nextId,           \* identity of the next node object created
    isProduction,     \* global._isProduction
    isExtractStyle,   \* global._isExtractStyle
    file,             \* the template file on disk, as parse5 parses it
    plugin,           \* the AutoWebPlugin object: options and entryMap
    compilers,        \* each webpack compiler: entries, plugins, hooks, assets
    thrown,           \* the error the last AutoWebPlugin call raised, if any
    calls,            \* number of operations made so far
    last,             \* the last operation: its arguments and what it saw
    loop              \* where a serialize call in progress is: list and index

vars == <<trees, docs, cache, nextId, isProduction, isExtractStyle, file,
          plugin, compilers, thrown, calls, last, loop>>

pluginVars == <<plugin, compilers, thrown>>

----------------------------------------------------------------------------
(* Bounds of the exploration *)

\* HTMLDocument constructions explored
MaxDocs == 2
\* operations (constructions, ensureRequires and serialize calls) explored
MaxCalls == 4
\* apply and emit calls explored
MaxHookCalls == 3
\* children of the head whose pretty pass is followed step by step
MaxLen == 3

----------------------------------------------------------------------------
(* Values *)

NoRef == [tree |-> 0, side |-> "none"]

\* the chunk names of the build: identifiers without a dot, so that the
\* chunk name read back from an injected node is the name injected
Names == { <<"a">>, <<"b">> }

RECURSIVE SeqsNoDup(_, _)
SeqsNoDup(S, n) ==
    IF n = 0 THEN { <<>> }
    ELSE LET shorter == SeqsNoDup(S, n - 1)
         IN  shorter \cup { Append(s, x) : s \in shorter, x \in S }

Range(s) == { s[i] : i \in 1..Len(s) }

\* a required list is an ordered list of distinct chunk names
RequireLists == { s \in SeqsNoDup(Names, Cardinality(Names)) : Cardinality(Range(s)) = Len(s) }

----------------------------------------------------------------------------
(* parse5 nodes *)

MkNode(name, attr, rel, data, children) ==
    [id |-> 0, parentNode |-> NoRef, nodeName |-> name, attr |-> attr,
     rel |-> rel, data |-> data, childNodes |-> children]

TextNode(value)      == MkNode("#text", <<>>, "", value, <<>>)
CommentNode(data)    == MkNode("#comment", <<>>, "", data, <<>>)
ScriptTag(src)       == MkNode("script", src, "", <<>>, <<>>)
LinkTag(href)        == MkNode("link", href, "stylesheet", <<>>, <<>>)
Element(name, kids)  == MkNode(name, <<>>, "", <<>>, kids)

\* the value null of a field that holds a node
NullNode == MkNode("null", <<>>, "", <<>>, <<>>)

\* what parse5.parse makes of DefaultHtmlTemplate: the text after </body>
\* is appended to body
DefaultHtmlTemplate ==
    [head |-> << TextNode(<<"\n", " ">>), Element("meta", <<>>), TextNode(<<"\n">>) >>,
     body |-> << TextNode(<<"\n">>), CommentNode(<<"SCRIPT">>), TextNode(<<"\n", "\n">>) >>]

\* <head><!--STYLE--></head><body><script src="a.js"></script><!--SCRIPT--></body>
TplExample ==
    [head |-> << CommentNode(<<"STYLE">>) >>,
     body |-> << ScriptTag(<<"a", "js">>), CommentNode(<<"SCRIPT">>) >>]

\* the SCRIPT marker in head, no STYLE marker, a comment nested in a div
TplHeadScript ==
    [head |-> << CommentNode(<<"SCRIPT">>), Element("meta", <<>>) >>,
     body |-> << TextNode(<<" ", "x", " ">>),
                 Element("div", << CommentNode(<<"note">>), TextNode(<<" ">>) >>) >>]

\* three SCRIPT markers, a stylesheet link and a conditional comment
TplDupMarkers ==
    [head |-> << CommentNode(<<"SCRIPT">>), LinkTag(<<"a", "css">>),
                 TextNode(<<"\n">>) >>,
     body |-> << CommentNode(<<"SCRIPT">>), TextNode(<<"\n">>),
                 CommentNode(<<" ", "SCRIPT">>), CommentNode(<<"[if ", "IE]">>) >>]

\* no marker at all
TplNoMarker ==
    [head |-> << Element("meta", <<>>) >>,
     body |-> << Element("div", <<>>), TextNode(<<"\n">>) >>]

TemplateFiles == { TplExample, TplHeadScript, TplDupMarkers, TplNoMarker }

\* what the disk holds when there is no file at the template's path
NoFile == [head |-> <<>>, body |-> <<>>, errno |-> "ENOENT"]

\* the template arguments of the constructor
AbsPath == "/www/template.html"
RelPath == "template.html"
NoPath  == "undefined"
TemplateArgs == { AbsPath, RelPath, NoPath }

\* path.resolve('.', p) with the process started in /www
PathResolve(p) == IF p = RelPath THEN AbsPath ELSE p

----------------------------------------------------------------------------
(* String helpers *)

IsBlank(c) == c \in { " ", "\n" }

RECURSIVE TrimLeft(_)
TrimLeft(s) ==
    IF s # <<>> /\ IsBlank(Head(s)) THEN TrimLeft(Tail(s)) ELSE s

RECURSIVE TrimRight(_)
TrimRight(s) ==
    IF s # <<>> /\ IsBlank(s[Len(s)]) THEN TrimRight(SubSeq(s, 1, Len(s) - 1)) ELSE s

\* String.prototype.trim
Trim(s) == TrimRight(TrimLeft(s))

\* a file name without its extension
StripExt(s) == IF Len(s) > 1 THEN SubSeq(s, 1, Len(s) - 1) ELSE s

\* data.startsWith('[if ')
StartsWithIf(s) == s # <<>> /\ s[1] = "[if "

\* value.indexOf('\n') >= 0
HasNewline(s) == \E i \in 1..Len(s) : s[i] = "\n"

----------------------------------------------------------------------------
(* Resource: the wrapper that classifies one node *)

NoChunk == <<>>

Resource(node) ==
    IF node.nodeName = "script" THEN
        [type |-> "script", chunkName |-> StripExt(node.attr), data |-> <<>>, node |-> node]
    ELSE IF node.nodeName = "style" \/ (node.nodeName = "link" /\ node.rel = "stylesheet") THEN
        [type |-> "style", chunkName |-> StripExt(node.attr), data |-> <<>>, node |-> node]
    ELSE IF node.nodeName = "#comment" THEN
        [type |-> "comment", chunkName |-> NoChunk, data |-> Trim(node.data), node |-> node]
    ELSE
        [type |-> "other", chunkName |-> NoChunk, data |-> <<>>, node |-> node]

\* Resource.clone: an independent wrapper of the same node
ResourceClone(r) == r

----------------------------------------------------------------------------
(* The heap of child lists, and JavaScript's array operations *)

ChildNodes(tr, ref) == tr[ref.tree][ref.side]

SetChildNodes(tr, ref, list) == [tr EXCEPT ![ref.tree][ref.side] = list]

Min(a, b) == IF a < b THEN a ELSE b
Max(a, b) == IF a > b THEN a ELSE b

\* Array.prototype.findIndex(n => n === node), 0-based, -1 when absent
FindIndex(list, node) ==
    IF \E i \in 1..Len(list) : list[i].id = node.id
    THEN (CHOOSE i \in 1..Len(list) :
             /\ list[i].id = node.id
             /\ \A j \in 1..(i - 1) : list[j].id # node.id) - 1
    ELSE -1

\* Array.prototype.splice(start, deleteCount, ...items), start 0-based:
\* a negative start counts from the end of the array
Splice(list, start, deleteCount, items) ==
    LET len  == Len(list)
        from == IF start < 0 THEN Max(len + start, 0) ELSE Min(start, len)
        dc   == Min(Max(deleteCount, 0), len - from)
    IN  SubSeq(list, 1, from) \o items \o SubSeq(list, from + dc + 1, len)

\* the forEach of replaceNodesWithNodes: [list, index] after removing each
RECURSIVE RemoveOldNodes(_, _, _)
RemoveOldNodes(list, oldNodes, index) ==
    IF oldNodes = <<>> THEN [list |-> list, index |-> index]
    ELSE LET at == FindIndex(list, Head(oldNodes))
         IN  RemoveOldNodes(Splice(list, at, 1, <<>>), Tail(oldNodes), at)

\* replaceNodesWithNodes that puts the new nodes at the end of the list
replaceNodesAtEnd(tr, oldNodes, newNodes) ==
    LET ref == oldNodes[1].parentNode
        r   == RemoveOldNodes(ChildNodes(tr, ref), oldNodes, 0)
    IN  SetChildNodes(tr, ref, r.list \o newNodes)

replaceNodesWithNodes(tr, oldNodes, newNodes) ==
    LET ref == oldNodes[1].parentNode
        r   == RemoveOldNodes(ChildNodes(tr, ref), oldNodes, 0)
    IN  SetChildNodes(tr, ref, Splice(r.list, r.index, 0, newNodes))

mockScriptNode(id, src, parentNode) ==
    [ScriptTag(src) EXCEPT !.id = id, !.parentNode = parentNode]

mockStyleNode(id, href, parentNode) ==
    [LinkTag(href) EXCEPT !.id = id, !.parentNode = parentNode]

----------------------------------------------------------------------------
(* HTMLDocument *)

\* the fields the constructor sets before it looks at the cache
EmptyDocument(path) ==
    [htmlTemplateFilePath |-> path, document |-> 0,
     headNode |-> NoRef, bodyNode |-> NoRef,
     scriptResources |-> <<>>, stylesResources |-> <<>>,
     scriptInjectCommentNode |-> NullNode, styleInjectCommentNode |-> NullNode]

\* a scan that keeps the first marker of a kind it meets
RECURSIVE findFirstScriptStyleTagComment(_, _)
findFirstScriptStyleTagComment(doc, childNodes) ==
    IF childNodes = <<>> THEN doc
    ELSE LET resource == Resource(Head(childNodes))
             next ==
                 IF resource.type = "script" THEN
                     [doc EXCEPT !.scriptResources = Append(@, resource)]
                 ELSE IF resource.type = "style" THEN
                     [doc EXCEPT !.stylesResources = Append(@, resource)]
                 ELSE IF /\ resource.type = "comment" /\ resource.data = <<"SCRIPT">>
                         /\ doc.scriptInjectCommentNode = NullNode THEN
                     [doc EXCEPT !.scriptInjectCommentNode = resource.node]
                 ELSE IF /\ resource.type = "comment" /\ resource.data = <<"STYLE">>
                         /\ doc.styleInjectCommentNode = NullNode THEN
                     [doc EXCEPT !.styleInjectCommentNode = resource.node]
                 ELSE doc
         IN  findFirstScriptStyleTagComment(next, Tail(childNodes))

RECURSIVE findScriptStyleTagComment(_, _)
findScriptStyleTagComment(doc, childNodes) ==
    IF childNodes = <<>> THEN doc
    ELSE LET resource == Resource(Head(childNodes))
             next ==
                 IF resource.type = "script" THEN
                     [doc EXCEPT !.scriptResources = Append(@, resource)]
                 ELSE IF resource.type = "style" THEN
                     [doc EXCEPT !.stylesResources = Append(@, resource)]
                 ELSE IF resource.type = "comment" /\ resource.data = <<"SCRIPT">> THEN
                     [doc EXCEPT !.scriptInjectCommentNode = resource.node]
                 ELSE IF resource.type = "comment" /\ resource.data = <<"STYLE">> THEN
                     [doc EXCEPT !.styleInjectCommentNode = resource.node]
                 ELSE doc
         IN  findScriptStyleTagComment(next, Tail(childNodes))

\* head is scanned before body: the order of html's children
findOutAll(tr, doc) ==
    LET head  == [tree |-> doc.document, side |-> "head"]
        body  == [tree |-> doc.document, side |-> "body"]
        withH == findScriptStyleTagComment([doc EXCEPT !.headNode = head],
                                           ChildNodes(tr, head))
    IN  findScriptStyleTagComment([withH EXCEPT !.bodyNode = body],
                                  ChildNodes(tr, body))

\* Object.assign({}, this) copies the references headNode and bodyNode, so
\* the two assignments to ret.headNode.childNodes and ret.bodyNode.childNodes
\* write a copy of each list back into the node objects `this` refers to
clone(tr, this) ==
    LET ret  == this
        tr1  == SetChildNodes(tr, ret.headNode, ChildNodes(tr, this.headNode))
        tr2  == SetChildNodes(tr1, ret.bodyNode, ChildNodes(tr1, this.bodyNode))
    IN  [trees |-> tr2,
         doc   |-> [ret EXCEPT
                      !.stylesResources =
                          [i \in 1..Len(this.stylesResources) |->
                              ResourceClone(this.stylesResources[i])],
                      !.scriptResources =
                          [i \in 1..Len(this.scriptResources) |->
                              ResourceClone(this.scriptResources[i])]]]

\* parse5.parse: a new tree whose nodes are new objects
Parse(content, tree, id0) ==
    LET nh == Len(content.head)
    IN  [head |-> [i \in 1..nh |->
                      [content.head[i] EXCEPT
                          !.id = id0 + i - 1,
                          !.parentNode = [tree |-> tree, side |-> "head"]]],
         body |-> [i \in 1..Len(content.body) |->
                      [content.body[i] EXCEPT
                          !.id = id0 + nh + i - 1,
                          !.parentNode = [tree |-> tree, side |-> "body"]]]]

NodeCount(content) == Len(content.head) + Len(content.body)

\* fs.readFileSync of the resolved path, or the built-in skeleton
TemplateContent(arg, disk) == IF arg = NoPath THEN DefaultHtmlTemplate ELSE disk

\* HTMLDocumentCacheMap is a total map here; a key it does not own maps to
\* a document without a tree
NoEntry == EmptyDocument("")

\* HTMLDocumentCacheMap.hasOwnProperty(key)
HasOwnProperty(cacheMap, key) == cacheMap[key] # NoEntry

\* a constructor that catches the error of readFileSync and goes on with
\* the built-in skeleton
HTMLDocumentWithFallback(tr, cacheMap, disk, arg, id0) ==
    IF HasOwnProperty(cacheMap, arg) THEN
        LET c == clone(tr, cacheMap[arg])
        IN  [trees |-> c.trees, cache |-> cacheMap, doc |-> c.doc,
             nextId |-> id0, hit |-> TRUE, error |-> "none"]
    ELSE
        LET path    == IF arg = NoPath THEN arg ELSE PathResolve(arg)
            content == IF arg # NoPath /\ disk = NoFile THEN DefaultHtmlTemplate
                       ELSE TemplateContent(arg, disk)
            tree    == Len(tr) + 1
            tr1     == Append(tr, Parse(content, tree, id0))
            this    == findOutAll(tr1, [EmptyDocument(path) EXCEPT !.document = tree])
            c       == clone(tr1, this)
        IN  [trees |-> c.trees,
             cache |-> [cacheMap EXCEPT ![path] = c.doc],
             doc |-> this, nextId |-> id0 + NodeCount(content), hit |-> FALSE,
             error |-> IF arg # NoPath /\ disk = NoFile THEN "ENOENT" ELSE "none"]

\* the cache lookup uses the argument as given; the entry is stored under
\* the resolved path. readFileSync throws when there is no file: the
\* constructor is left before anything is parsed or stored
HTMLDocument(tr, cacheMap, disk, arg, id0) ==
    IF HasOwnProperty(cacheMap, arg) THEN
        LET c == clone(tr, cacheMap[arg])
        IN  [trees |-> c.trees, cache |-> cacheMap, doc |-> c.doc,
             nextId |-> id0, hit |-> TRUE, error |-> "none"]
    ELSE IF arg # NoPath /\ disk = NoFile THEN
        [trees |-> tr, cache |-> cacheMap, doc |-> NoEntry,
         nextId |-> id0, hit |-> FALSE, error |-> "ENOENT"]
    ELSE
        LET path    == IF arg = NoPath THEN arg ELSE PathResolve(arg)
            content == TemplateContent(arg, disk)
            tree    == Len(tr) + 1
            tr1     == Append(tr, Parse(content, tree, id0))
            this    == findOutAll(tr1, [EmptyDocument(path) EXCEPT !.document = tree])
            c       == clone(tr1, this)
        IN  [trees |-> c.trees,
             cache |-> [cacheMap EXCEPT ![path] = c.doc],
             doc |-> this, nextId |-> id0 + NodeCount(content), hit |-> FALSE,
             error |-> "none"]

\* the loop that drops from the required list every chunk already loaded
\* by a resource: one splice of the first match per resource
RECURSIVE RemoveLoaded(_, _)
RemoveLoaded(resources, requires) ==
    IF resources = <<>> THEN requires
    ELSE LET chunkName == Head(resources).chunkName
             present   == \E i \in 1..Len(requires) : requires[i] = chunkName
             index     == IF present
                          THEN (CHOOSE i \in 1..Len(requires) :
                                   /\ requires[i] = chunkName
                                   /\ \A j \in 1..(i - 1) : requires[j] # chunkName) - 1
                          ELSE -1
         IN  RemoveLoaded(Tail(resources),
                          IF index >= 0 THEN Splice(requires, index, 1, <<>>)
                          ELSE requires)

\* _ensureRequireScripts that returns no node from its marker branch
ensureRequireScriptsNoReturn(tr, this, requires, id0) ==
    LET requiresScripts == RemoveLoaded(this.scriptResources, requires)
        parentNode == IF this.scriptInjectCommentNode # NullNode
                      THEN this.scriptInjectCommentNode.parentNode
                      ELSE this.bodyNode
        leftScriptNodes ==
            [i \in 1..Len(requiresScripts) |->
                mockScriptNode(id0 + i - 1, requiresScripts[i], parentNode)]
    IN  IF Len(requiresScripts) > 0 THEN
            IF this.scriptInjectCommentNode # NullNode THEN
                [trees |-> replaceNodesWithNodes(tr, <<this.scriptInjectCommentNode>>,
                                                 leftScriptNodes),
                 left |-> <<>>]
            ELSE
                [trees |-> SetChildNodes(tr, this.bodyNode,
                               ChildNodes(tr, this.bodyNode) \o leftScriptNodes),
                 left |-> leftScriptNodes]
        ELSE [trees |-> tr, left |-> <<>>]

ensureRequireScripts(tr, this, requires, id0) ==
    LET requiresScripts == RemoveLoaded(this.scriptResources, requires)
        parentNode == IF this.scriptInjectCommentNode # NullNode
                      THEN this.scriptInjectCommentNode.parentNode
                      ELSE this.bodyNode
        leftScriptNodes ==
            [i \in 1..Len(requiresScripts) |->
                mockScriptNode(id0 + i - 1, requiresScripts[i], parentNode)]
    IN  IF Len(requiresScripts) > 0 THEN
            IF this.scriptInjectCommentNode # NullNode THEN
                [trees |-> replaceNodesWithNodes(tr, <<this.scriptInjectCommentNode>>,
                                                 leftScriptNodes),
                 left |-> leftScriptNodes]
            ELSE
                [trees |-> SetChildNodes(tr, this.bodyNode,
                               ChildNodes(tr, this.bodyNode) \o leftScriptNodes),
                 left |-> leftScriptNodes]
        ELSE [trees |-> tr, left |-> <<>>]

\* _ensureRequireStyles whose fallback appends to body, as the script one
ensureRequireStylesIntoBody(tr, this, requires, id0) ==
    LET requiresStyles == RemoveLoaded(this.stylesResources, requires)
        parentNode == IF this.styleInjectCommentNode # NullNode
                      THEN this.styleInjectCommentNode.parentNode
                      ELSE this.bodyNode
        leftStyleNodes ==
            [i \in 1..Len(requiresStyles) |->
                mockStyleNode(id0 + i - 1, requiresStyles[i], parentNode)]
    IN  IF Len(requiresStyles) > 0 THEN
            IF this.styleInjectCommentNode # NullNode THEN
                [trees |-> replaceNodesWithNodes(tr, <<this.styleInjectCommentNode>>,
                                                 leftStyleNodes),
                 left |-> leftStyleNodes]
            ELSE
                [trees |-> SetChildNodes(tr, this.bodyNode,
                               ChildNodes(tr, this.bodyNode) \o leftStyleNodes),
                 left |-> leftStyleNodes]
        ELSE [trees |-> tr, left |-> <<>>]

ensureRequireStyles(tr, this, requires, id0) ==
    LET requiresStyles == RemoveLoaded(this.stylesResources, requires)
        parentNode == IF this.styleInjectCommentNode # NullNode
                      THEN this.styleInjectCommentNode.parentNode
                      ELSE this.headNode
        leftStyleNodes ==
            [i \in 1..Len(requiresStyles) |->
                mockStyleNode(id0 + i - 1, requiresStyles[i], parentNode)]
    IN  IF Len(requiresStyles) > 0 THEN
            IF this.styleInjectCommentNode # NullNode THEN
                [trees |-> replaceNodesWithNodes(tr, <<this.styleInjectCommentNode>>,
                                                 leftStyleNodes),
                 left |-> leftStyleNodes]
            ELSE
                [trees |-> SetChildNodes(tr, this.headNode,
                               ChildNodes(tr, this.headNode) \o leftStyleNodes),
                 left |-> leftStyleNodes]
        ELSE [trees |-> tr, left |-> <<>>]

\* ensureRequires without the re-scan of the injected nodes
ensureRequiresNoRescan(tr, this, requires, extractStyle, id0) ==
    LET s  == ensureRequireScripts(tr, this, requires, id0)
        c  == IF extractStyle
              THEN ensureRequireStyles(s.trees, this, requires, id0 + Len(s.left))
              ELSE [trees |-> s.trees, left |-> <<>>]
        lefts == s.left \o c.left
    IN  [trees |-> c.trees,
         doc |-> this,
         afterScripts |-> s.trees,
         leftScripts |-> s.left,
         leftStyles |-> c.left,
         nextId |-> id0 + Len(lefts)]

\* ensureRequires that runs the style pass whatever the flag is
ensureRequiresAlwaysStyles(tr, this, requires, extractStyle, id0) ==
    LET s  == ensureRequireScripts(tr, this, requires, id0)
        c  == ensureRequireStyles(s.trees, this, requires, id0 + Len(s.left))
        lefts == s.left \o c.left
    IN  [trees |-> c.trees,
         doc |-> findScriptStyleTagComment(this, lefts),
         afterScripts |-> s.trees,
         leftScripts |-> s.left,
         leftStyles |-> c.left,
         nextId |-> id0 + Len(lefts)]

\* the script pass, the style pass when global._isExtractStyle is set, and
\* the re-scan of the injected nodes into the resource lists
ensureRequires(tr, this, requires, extractStyle, id0) ==
    LET s  == ensureRequireScripts(tr, this, requires, id0)
        c  == IF extractStyle
              THEN ensureRequireStyles(s.trees, this, requires, id0 + Len(s.left))
              ELSE [trees |-> s.trees, left |-> <<>>]
        lefts == s.left \o c.left
    IN  [trees |-> c.trees,
         doc |-> findScriptStyleTagComment(this, lefts),
         afterScripts |-> s.trees,
         leftScripts |-> s.left,
         leftStyles |-> c.left,
         nextId |-> id0 + Len(lefts)]

\* mini: in production mode drop comments (conditional ones excepted) and
\* blank text, walking the list from its end
RECURSIVE mini(_, _)
mini(childNodes, i) ==
    IF i < 0 THEN childNodes
    ELSE LET node == childNodes[i + 1]
         IN  IF node.nodeName = "#comment" /\ ~StartsWithIf(node.data) THEN
                 mini(Splice(childNodes, i, 1, <<>>), i - 1)
             ELSE IF node.nodeName = "#text" THEN
                 IF Len(Trim(node.data)) = 0
                 THEN mini(Splice(childNodes, i, 1, <<>>), i - 1)
                 ELSE mini([childNodes EXCEPT ![i + 1].data = Trim(node.data)], i - 1)
             ELSE mini(childNodes, i - 1)

\* pretty that goes on to the next node where pretty returns
RECURSIVE prettyNoReturn(_, _, _, _)
prettyNoReturn(tr, ref, i, id) ==
    IF i < 0 THEN [trees |-> tr, nextId |-> id]
    ELSE LET childNodes == ChildNodes(tr, ref)
             node       == childNodes[i + 1]
             hasPre     == i >= 1
             preNode    == childNodes[i]
         IN  IF node.nodeName # "#text" THEN
                 IF hasPre /\ preNode.nodeName = "#text" /\ HasNewline(preNode.data)
                 THEN prettyNoReturn(tr, ref, i - 1, id)
                 ELSE prettyNoReturn(replaceNodesWithNodes(tr, <<node>>,
                                 << [TextNode(<<"\n">>) EXCEPT
                                        !.id = id, !.parentNode = node.parentNode],
                                    node >>),
                             ref, i - 1, id + 1)
             ELSE prettyNoReturn(tr, ref, i - 1, id)

\* pretty: walking the list of `ref` from its end, put a newline text node
\* before each non-text node; return as soon as a non-text node already
\* follows a text node that holds a newline
RECURSIVE pretty(_, _, _, _)
pretty(tr, ref, i, id) ==
    IF i < 0 THEN [trees |-> tr, nextId |-> id]
    ELSE LET childNodes == ChildNodes(tr, ref)
             node       == childNodes[i + 1]
             hasPre     == i >= 1
             preNode    == childNodes[i]
         IN  IF node.nodeName # "#text" THEN
                 IF hasPre /\ preNode.nodeName = "#text" /\ HasNewline(preNode.data)
                 THEN [trees |-> tr, nextId |-> id]
                 ELSE pretty(replaceNodesWithNodes(tr, <<node>>,
                                 << [TextNode(<<"\n">>) EXCEPT
                                        !.id = id, !.parentNode = node.parentNode],
                                    node >>),
                             ref, i - 1, id + 1)
             ELSE pretty(tr, ref, i - 1, id)

\* f(this.headNode.childNodes); f(this.bodyNode.childNodes); the string
\* returned is the serialization of the tree as it is then
serialize(tr, this, production, id0) ==
    IF production THEN
        LET h  == ChildNodes(tr, this.headNode)
            t1 == SetChildNodes(tr, this.headNode, mini(h, Len(h) - 1))
            b  == ChildNodes(t1, this.bodyNode)
        IN  [trees |-> SetChildNodes(t1, this.bodyNode, mini(b, Len(b) - 1)),
             nextId |-> id0]
    ELSE
        LET p1 == pretty(tr, this.headNode,
                         Len(ChildNodes(tr, this.headNode)) - 1, id0)
        IN  pretty(p1.trees, this.bodyNode,
                   Len(ChildNodes(p1.trees, this.bodyNode)) - 1, p1.nextId)

\* a loop body that goes to the next index only after a non-text node
prettyIterationKeepsIndex(tr, ref, i, id) ==
    LET childNodes == ChildNodes(tr, ref)
        node       == childNodes[i + 1]
        hasPre     == i >= 1
        preNode    == childNodes[i]
    IN  IF node.nodeName # "#text" THEN
            IF hasPre /\ preNode.nodeName = "#text" /\ HasNewline(preNode.data)
            THEN [trees |-> tr, nextId |-> id, i |-> i, returned |-> TRUE]
            ELSE [trees |-> replaceNodesWithNodes(tr, <<node>>,
                               << [TextNode(<<"\n">>) EXCEPT
                                      !.id = id, !.parentNode = node.parentNode],
                                  node >>),
                  nextId |-> id + 1, i |-> i - 1, returned |-> FALSE]
        ELSE [trees |-> tr, nextId |-> id, i |-> i, returned |-> FALSE]

\* one run of the body of pretty's for loop, at index i >= 0 of the list
\* of `ref`, and the i-- that follows it unless the body returns
prettyIteration(tr, ref, i, id) ==
    LET childNodes == ChildNodes(tr, ref)
        node       == childNodes[i + 1]
        hasPre     == i >= 1
        preNode    == childNodes[i]
    IN  IF node.nodeName # "#text" THEN
            IF hasPre /\ preNode.nodeName = "#text" /\ HasNewline(preNode.data)
            THEN [trees |-> tr, nextId |-> id, i |-> i, returned |-> TRUE]
            ELSE [trees |-> replaceNodesWithNodes(tr, <<node>>,
                               << [TextNode(<<"\n">>) EXCEPT
                                      !.id = id, !.parentNode = node.parentNode],
                                  node >>),
                  nextId |-> id + 1, i |-> i - 1, returned |-> FALSE]
        ELSE [trees |-> tr, nextId |-> id, i |-> i - 1, returned |-> FALSE]

----------------------------------------------------------------------------
(* AutoWebPlugin *)

\* the entries of pageDir as fs.readdirSync lists them
PageDir == << [name |-> "home", isDirectory |-> TRUE],
              [name |-> "about", isDirectory |-> TRUE],
              [name |-> "README.md", isDirectory |-> FALSE] >>

RECURSIVE getDirsInDir(_, _)
getDirsInDir(files, ignorePages) ==
    IF files = <<>> THEN <<>>
    ELSE LET fileName == Head(files).name
             rest     == getDirsInDir(Tail(files), ignorePages)
         IN  IF (\A i \in 1..Len(ignorePages) : ignorePages[i] # fileName)
                /\ Head(files).isDirectory
             THEN <<fileName>> \o rest
             ELSE rest

\* the values of the options explored; "undefined" is an option not given
TemplateOptions == { "undefined", AbsPath }
EntryOptions    == { "undefined", "/src/main.js" }
FilenameOptions == { "undefined", "function" }
IgnoreOptions   == { <<>>, <<"about">>, <<"home", "about">> }
EntrysOptions   == { [isArray |-> FALSE, items |-> <<>>],
                     [isArray |-> TRUE, items |-> <<"polyfill.js">>] }
CommonsChunkOptions ==
    { [type |-> "undefined", name |-> "", hasChunks |-> FALSE, chunks |-> <<>>],
      [type |-> "null", name |-> "", hasChunks |-> FALSE, chunks |-> <<>>],
      [type |-> "object", name |-> "common", hasChunks |-> FALSE, chunks |-> <<>>],
      [type |-> "object", name |-> "common", hasChunks |-> TRUE, chunks |-> <<"home">>] }

\* the user's filename function: pageName => pageName + "-page"
FilenameFunction(pageName) == <<pageName, "-page">>

\* the AutoWebPlugin constructor: one entryMap record per page directory,
\* in the order Object.keys lists them
RECURSIVE BuildEntryMap(_, _)
BuildEntryMap(pageNames, options) ==
    IF pageNames = <<>> THEN <<>>
    ELSE LET pageName == Head(pageNames)
         IN  << [name |-> pageName,
                 template |-> options.template,
                 entryPath |-> IF options.entry # "undefined" THEN <<options.entry>>
                               ELSE <<"/pages/", pageName>>,
                 filename |-> IF options.filename = "function"
                              THEN FilenameFunction(pageName)
                              ELSE <<pageName>>] >>
             \o BuildEntryMap(Tail(pageNames), options)

AutoWebPlugin(options) ==
    [options |-> options,
     entryMap |-> BuildEntryMap(getDirsInDir(PageDir, options.ignorePages), options)]

\* the webpack configurations of the compilers of the process
Compilers == { "dev", "prod", "stage" }

CompilerPlugins(c) ==
    IF c = "prod" THEN { "DefinePlugin:production", "ExtractTextPlugin:css" } ELSE {}

\* output.publicPath || '': none for dev, "/static/" for prod and "/static"
\* for stage, as the pieces between and including the slashes
PublicPathOf(c) ==
    IF c = "prod" THEN <<"/", "static", "/">>
    ELSE IF c = "stage" THEN <<"/", "static">>
    ELSE <<>>

\* process.env.NODE_ENV of the build process
NodeEnv == "undefined"

\* util.isProduction
isProductionCompiler(c) ==
    NodeEnv = "production" \/ "DefinePlugin:production" \in CompilerPlugins(c)

\* util.isExtractStyle
isExtractStyleCompiler(c) == "ExtractTextPlugin:css" \in CompilerPlugins(c)

NewCompiler ==
    [entry |-> <<>>, webPlugins |-> <<>>, commonsChunkPlugins |-> <<>>,
     emitHooks |-> 0, hasPagemap |-> FALSE, pagemap |-> <<>>, callbacks |-> 0]

\* object[key] = value on an object kept as the list of its properties: an
\* existing key keeps its place
SetProperty(object, key, value) ==
    IF \E i \in 1..Len(object) : object[i].name = key
    THEN [i \in 1..Len(object) |->
             IF object[i].name = key THEN [name |-> key, modules |-> value]
             ELSE object[i]]
    ELSE Append(object, [name |-> key, modules |-> value])

\* the forEach of apply over Object.keys(entryMap); an access to
\* commonsChunk.name when commonsChunk is null raises a TypeError, which
\* leaves the loop with what was registered so far
RECURSIVE ApplyEntries(_, _, _, _)
ApplyEntries(entries, options, useCommonsChunk, compiler) ==
    IF entries = <<>> THEN [compiler |-> compiler, thrown |-> "none"]
    ELSE LET e == Head(entries)
             withPre == IF options.preEntrys.isArray
                        THEN options.preEntrys.items \o <<e.entryPath>>
                        ELSE <<e.entryPath>>
             pageEntryArray == IF options.postEntrys.isArray
                               THEN withPre \o options.postEntrys.items
                               ELSE withPre
             c1 == [compiler EXCEPT !.entry =
                       SetProperty(@, e.name, pageEntryArray)]
         IN  IF useCommonsChunk /\ options.commonsChunk.type = "null"
             THEN [compiler |-> c1, thrown |-> "TypeError"]
             ELSE ApplyEntries(Tail(entries), options, useCommonsChunk,
                     [c1 EXCEPT !.webPlugins = Append(@,
                         [template |-> e.template,
                          filename |-> <<e.name, ".html">>,
                          requires |-> IF useCommonsChunk
                                       THEN <<options.commonsChunk.name, e.name>>
                                       ELSE <<e.name>>])])

EntryNames(entryMap) == [i \in 1..Len(entryMap) |-> entryMap[i].name]

\* typeof commonsChunk === 'string'
UseCommonsChunkWhenString(commonsChunk) == commonsChunk.type = "string"

\* commonsChunk != null || typeof commonsChunk === 'object'
UseCommonsChunk(commonsChunk) ==
    (commonsChunk.type \notin { "null", "undefined" }) \/ commonsChunk.type \in { "object", "null" }

\* AutoWebPlugin.apply, after the two globals are set
apply(this, compiler) ==
    LET options == this.options
        useCommonsChunk == UseCommonsChunk(options.commonsChunk)
        r  == ApplyEntries(this.entryMap, options, useCommonsChunk, compiler)
        c2 == IF useCommonsChunk
              THEN [r.compiler EXCEPT !.commonsChunkPlugins = Append(@,
                       [chunks |-> IF options.commonsChunk.hasChunks
                                   THEN options.commonsChunk.chunks
                                   ELSE EntryNames(this.entryMap),
                        name |-> options.commonsChunk.name])]
              ELSE r.compiler
    IN  IF r.thrown # "none" THEN r
        ELSE [compiler |-> [c2 EXCEPT !.emitHooks = @ + 1], thrown |-> "none"]

\* the pieces of a path up to and including its last slash
RECURSIVE UpToLastSlash(_)
UpToLastSlash(path) ==
    IF path = <<>> \/ path[Len(path)] = "/" THEN path
    ELSE UpToLastSlash(SubSeq(path, 1, Len(path) - 1))

\* url.resolve(from, to) for a relative file name: as a browser resolves a
\* link, the name replaces what follows the last slash of from
UrlResolve(from, to) == UpToLastSlash(from) \o to

\* the emit handler registered by apply
emit(this, c, compiler) ==
    LET withMap ==
            IF this.options.outputPagemap
            THEN [compiler EXCEPT
                    !.hasPagemap = TRUE,
                    !.pagemap = [i \in 1..Len(this.entryMap) |->
                                   [name |-> this.entryMap[i].name,
                                    url |-> UrlResolve(PublicPathOf(c),
                                               this.entryMap[i].filename \o <<".html">>)]]]
            ELSE compiler
    IN  [withMap EXCEPT !.callbacks = @ + 1]

----------------------------------------------------------------------------
(* The state machine *)

NoOp ==
    [op |-> "init", doc |-> 0, arg |-> "", requires |-> <<>>, hit |-> FALSE,
     extract |-> FALSE, production |-> FALSE,
     pre |-> <<>>, afterScripts |-> <<>>, preDoc |-> NoEntry,
     leftScripts |-> <<>>, leftStyles |-> <<>>,
     prevOp |-> "init", prevDoc |-> 0, prevRequires |-> <<>>,
     prevArg |-> "", preCompiler |-> NewCompiler, error |-> "none"]

\* the record of an operation, remembering which operation came before it
After(op) ==
    [NoOp EXCEPT !.op = op, !.prevOp = last.op, !.prevDoc = last.doc,
                 !.prevRequires = last.requires, !.prevArg = last.arg]

DefaultOptions ==
    [template |-> "undefined", entry |-> "undefined", filename |-> "undefined",
     ignorePages |-> <<>>,
     preEntrys |-> [isArray |-> FALSE, items |-> <<>>],
     postEntrys |-> [isArray |-> FALSE, items |-> <<>>],
     commonsChunk |-> [type |-> "undefined", name |-> "", hasChunks |-> FALSE,
                       chunks |-> <<>>],
     outputPagemap |-> FALSE]

AllOptions ==
    [template : TemplateOptions, entry : EntryOptions, filename : FilenameOptions,
     ignorePages : IgnoreOptions, preEntrys : EntrysOptions,
     postEntrys : EntrysOptions, commonsChunk : CommonsChunkOptions,
     outputPagemap : BOOLEAN]

\* no serialize call is in progress
NoLoop == [pc |-> "idle", i |-> 0]

\* the module HTMLDocument as loaded: nothing parsed, nothing cached
DocInit ==
    /\ trees = <<>>
    /\ docs = <<>>
    /\ cache = [k \in TemplateArgs |-> NoEntry]
    /\ nextId = 1
    /\ calls = 0
    /\ last = NoOp
    /\ loop = NoLoop

\* The document operations, in a process whose two globals were set by an
\* earlier apply and whose template file is any of TemplateFiles, or is not
\* there
Init ==
    /\ DocInit
    /\ isProduction \in BOOLEAN
    /\ isExtractStyle \in BOOLEAN
    /\ file \in TemplateFiles \cup { NoFile }
    /\ plugin = AutoWebPlugin(DefaultOptions)
    /\ compilers = [c \in Compilers |-> NewCompiler]
    /\ thrown = "none"

\* An AutoWebPlugin constructed with any of the options, before webpack
\* calls it; the two globals are still undefined, which reads as false
PluginInit ==
    /\ DocInit
    /\ isProduction = FALSE
    /\ isExtractStyle = FALSE
    /\ file = TplExample
    /\ \E options \in AllOptions : plugin = AutoWebPlugin(options)
    /\ compilers = [c \in Compilers |-> NewCompiler]
    /\ thrown = "none"

\* new HTMLDocument(htmlTemplateFilePath); a constructor that throws
\* returns no document
NewHTMLDocument(arg) ==
    /\ Len(docs) < MaxDocs
    /\ calls < MaxCalls
    /\ calls' = calls + 1
    /\ LET r == HTMLDocument(trees, cache, file, arg, nextId)
       IN  /\ trees' = r.trees
           /\ cache' = r.cache
           /\ docs' = IF r.error = "none" THEN Append(docs, r.doc) ELSE docs
           /\ nextId' = r.nextId
           /\ last' = [After("new") EXCEPT
                          !.doc = IF r.error = "none" THEN Len(docs) + 1 ELSE 0,
                          !.arg = arg, !.hit = r.hit, !.pre = trees,
                          !.error = r.error]
    /\ UNCHANGED <<isProduction, isExtractStyle, file, pluginVars, loop>>

\* docs[d].ensureRequires(requires)
EnsureRequires(d, requires) ==
    /\ calls < MaxCalls
    /\ LET r == ensureRequires(trees, docs[d], requires, isExtractStyle, nextId)
       IN  /\ trees' = r.trees
           /\ docs' = [docs EXCEPT ![d] = r.doc]
           /\ nextId' = r.nextId
           /\ last' = [After("ensureRequires") EXCEPT !.doc = d,
                                   !.requires = requires, !.extract = isExtractStyle,
                                   !.pre = trees, !.preDoc = docs[d],
                                   !.afterScripts = r.afterScripts,
                                   !.leftScripts = r.leftScripts,
                                   !.leftStyles = r.leftStyles]
    /\ calls' = calls + 1
    /\ UNCHANGED <<cache, isProduction, isExtractStyle, file, pluginVars, loop>>

\* docs[d].serialize()
Serialize(d) ==
    /\ calls < MaxCalls
    /\ LET r == serialize(trees, docs[d], isProduction, nextId)
       IN  /\ trees' = r.trees
           /\ nextId' = r.nextId
           /\ last' = [After("serialize") EXCEPT !.doc = d,
                                   !.production = isProduction,
                                   !.pre = trees, !.preDoc = docs[d]]
    /\ calls' = calls + 1
    /\ UNCHANGED <<docs, cache, isProduction, isExtractStyle, file, pluginVars, loop>>

\* plugin.apply(compiler), called by webpack
Apply(c) ==
    /\ calls < MaxHookCalls
    /\ calls' = calls + 1
    /\ isProduction' = isProductionCompiler(c)
    /\ isExtractStyle' = isExtractStyleCompiler(c)
    /\ LET r == apply(plugin, compilers[c])
       IN  /\ compilers' = [compilers EXCEPT ![c] = r.compiler]
           /\ thrown' = r.thrown
    /\ last' = [After("apply") EXCEPT !.arg = c, !.preCompiler = compilers[c]]
    /\ UNCHANGED <<trees, docs, cache, nextId, file, plugin, loop>>

\* webpack runs the emit handler that an apply registered on compiler c
Emit(c) ==
    /\ calls < MaxHookCalls
    /\ calls' = calls + 1
    /\ compilers[c].emitHooks > 0
    /\ compilers' = [compilers EXCEPT ![c] = emit(plugin, c, @)]
    /\ thrown' = "none"
    /\ last' = [After("emit") EXCEPT !.arg = c, !.preCompiler = compilers[c]]
    /\ UNCHANGED <<trees, docs, cache, nextId, file, plugin,
                   isProduction, isExtractStyle, loop>>

Next ==
    \/ \E arg \in TemplateArgs : NewHTMLDocument(arg)
    \/ \E d \in 1..Len(docs), requires \in RequireLists : EnsureRequires(d, requires)
    \/ \E d \in 1..Len(docs) : Serialize(d)

Spec == Init /\ [][Next]_vars

PluginNext ==
    \/ \E c \in Compilers : Apply(c)
    \/ \E c \in Compilers : Emit(c)

----------------------------------------------------------------------------
(* a build: webpack applies the plugin to its compilers, and at emit time *)
(* the WebPlugin of a compiler builds the documents of its pages          *)

\* the plugin was applied to compiler c
Applied(c) == compilers[c].emitHooks > 0

BuildInit ==
    /\ DocInit
    /\ isProduction = FALSE
    /\ isExtractStyle = FALSE
    /\ file \in { TplExample, TplNoMarker }
    /\ plugin = AutoWebPlugin(DefaultOptions)
    /\ compilers = [c \in Compilers |-> NewCompiler]
    /\ thrown = "none"

\* the WebPlugin of compiler c asks for the document of a page
PageDocument(c, arg) == Applied(c) /\ NewHTMLDocument(arg)

\* the WebPlugin of compiler c calls docs[d].ensureRequires(requires)
PageEnsureRequires(c, d, requires) ==
    /\ Applied(c)
    /\ calls < MaxCalls
    /\ LET r == ensureRequires(trees, docs[d], requires, isExtractStyle, nextId)
       IN  /\ trees' = r.trees
           /\ docs' = [docs EXCEPT ![d] = r.doc]
           /\ nextId' = r.nextId
           /\ last' = [After("ensureRequires") EXCEPT !.doc = d, !.arg = c,
                                   !.requires = requires, !.extract = isExtractStyle,
                                   !.pre = trees, !.preDoc = docs[d],
                                   !.afterScripts = r.afterScripts,
                                   !.leftScripts = r.leftScripts,
                                   !.leftStyles = r.leftStyles]
    /\ calls' = calls + 1
    /\ UNCHANGED <<cache, isProduction, isExtractStyle, file, pluginVars, loop>>

\* the WebPlugin of compiler c calls docs[d].serialize()
PageSerialize(c, d) ==
    /\ Applied(c)
    /\ calls < MaxCalls
    /\ LET r == serialize(trees, docs[d], isProduction, nextId)
       IN  /\ trees' = r.trees
           /\ nextId' = r.nextId
           /\ last' = [After("serialize") EXCEPT !.doc = d, !.arg = c,
                                   !.production = isProduction,
                                   !.pre = trees, !.preDoc = docs[d]]
    /\ calls' = calls + 1
    /\ UNCHANGED <<docs, cache, isProduction, isExtractStyle, file, pluginVars, loop>>

BuildNext ==
    \/ \E c \in Compilers : Apply(c)
    \/ \E c \in Compilers, arg \in { AbsPath, NoPath } : PageDocument(c, arg)
    \/ \E c \in Compilers, d \in 1..Len(docs), requires \in RequireLists :
          PageEnsureRequires(c, d, requires)
    \/ \E c \in Compilers, d \in 1..Len(docs) : PageSerialize(c, d)

BuildSpec == BuildInit /\ [][BuildNext]_vars

----------------------------------------------------------------------------
(* serialize in development mode, one loop iteration at a time *)

\* the kinds of child a list is made of
ChildKinds == { TextNode(<<"\n">>), TextNode(<<"x">>), CommentNode(<<"note">>),
                Element("div", <<>>) }

\* the head child lists of up to MaxLen children
ChildLists == UNION { [1..n -> ChildKinds] : n \in 0..MaxLen }

BodyLists == { <<>>, DefaultHtmlTemplate.body, TplDupMarkers.body }

\* f(this.headNode.childNodes) is about to start on a document just parsed
\* from a template with any of the head and body lists
PrettyInit ==
    \E head \in ChildLists, body \in BodyLists :
        LET content == [head |-> head, body |-> body]
            tr      == << Parse(content, 1, 1) >>
            this    == findOutAll(tr, [EmptyDocument(AbsPath) EXCEPT !.document = 1])
        IN  /\ file = content
            /\ trees = tr
            /\ docs = << this >>
            /\ nextId = 1 + NodeCount(content)
            /\ last = [NoOp EXCEPT !.op = "pretty", !.doc = 1, !.pre = tr,
                                   !.preDoc = this]
            /\ loop = [pc |-> "head", i |-> Len(head) - 1]
    /\ cache = [k \in TemplateArgs |-> NoEntry]
    /\ calls = 0
    /\ isProduction = FALSE
    /\ isExtractStyle = FALSE
    /\ plugin = AutoWebPlugin(DefaultOptions)
    /\ compilers = [c \in Compilers |-> NewCompiler]
    /\ thrown = "none"

\* the list the loop walks
LoopRef == IF loop.pc = "head" THEN docs[1].headNode ELSE docs[1].bodyNode

\* what follows pretty's return: f(this.bodyNode.childNodes) after head,
\* parse5.serialize after body
AfterList(tr) ==
    IF loop.pc = "head"
    THEN [pc |-> "body", i |-> Len(ChildNodes(tr, docs[1].bodyNode)) - 1]
    ELSE [pc |-> "done", i |-> 0]

\* the loop body runs for index loop.i
PrettyIteration ==
    /\ loop.pc \in { "head", "body" }
    /\ loop.i >= 0
    /\ LET r == prettyIteration(trees, LoopRef, loop.i, nextId)
       IN  /\ trees' = r.trees
           /\ nextId' = r.nextId
           /\ loop' = IF r.returned THEN AfterList(r.trees)
                      ELSE [loop EXCEPT !.i = r.i]
    /\ UNCHANGED <<docs, cache, isProduction, isExtractStyle, file, pluginVars,
                   calls, last>>

\* the loop condition i >= 0 fails
PrettyLeave ==
    /\ loop.pc \in { "head", "body" }
    /\ loop.i < 0
    /\ loop' = AfterList(trees)
    /\ UNCHANGED <<trees, docs, cache, nextId, isProduction, isExtractStyle, file,
                   pluginVars, calls, last>>

PrettyNext == PrettyIteration \/ PrettyLeave

\* serialize is synchronous code: a loop that can go on does
PrettySpec == PrettyInit /\ [][PrettyNext]_vars /\ WF_vars(PrettyNext)

PluginSpec == PluginInit /\ [][PluginNext]_vars

----------------------------------------------------------------------------
(* Observations the properties are stated with *)

\* the head and body child lists a document refers to, in the heap tr
HeadBody(tr, doc) ==
    [head |-> ChildNodes(tr, doc.headNode), body |-> ChildNodes(tr, doc.bodyNode)]

\* a node without its identity
Shape(node) == [node EXCEPT !.id = 0, !.parentNode = NoRef]

Shapes(list) == [i \in 1..Len(list) |-> Shape(list[i])]

ChunkNames(resources) == { resources[i].chunkName : i \in 1..Len(resources) }

\* what a caller can observe of a document: its children, the chunk names
\* of its resources and its markers, identities aside
View(tr, doc) ==
    [head |-> Shapes(ChildNodes(tr, doc.headNode)),
     body |-> Shapes(ChildNodes(tr, doc.bodyNode)),
     scripts |-> [i \in 1..Len(doc.scriptResources) |-> doc.scriptResources[i].chunkName],
     styles |-> [i \in 1..Len(doc.stylesResources) |-> doc.stylesResources[i].chunkName],
     scriptMarker |-> Shape(doc.scriptInjectCommentNode),
     styleMarker |-> Shape(doc.styleInjectCommentNode)]

\* the document a first construction makes of template argument arg
FreshlyParsed(arg) ==
    HTMLDocument(<<>>, [k \in TemplateArgs |-> NoEntry], file, arg, 1)

\* the document the next construction for a cached key would return
NextFromCache(key) == clone(trees, cache[key])

IsEnsure == last.op = "ensureRequires"

\* the document the last operation was called on, after and before it
ThisDoc == docs[last.doc]

\* the required names that no resource of the list carries yet
LeftOver(requires, resources) ==
    SelectSeq(requires, LAMBDA n : n \notin ChunkNames(resources))

IndexIn(list, node) == FindIndex(list, node) + 1

Srcs(list) == [i \in 1..Len(list) |-> list[i].attr]

AllScripts(list) == \A i \in 1..Len(list) : list[i].nodeName = "script"

AllLinks(list) ==
    \A i \in 1..Len(list) : list[i].nodeName = "link" /\ list[i].rel = "stylesheet"

----------------------------------------------------------------------------
(* Properties C1 .. C10 *)

\* C1: an ensureRequires call on one document leaves the head and body
\* child lists of every other document of the same template unchanged.
C1_OtherDocumentUnchanged ==
    IsEnsure =>
        \A e \in 1..Len(docs) :
            (e # last.doc
             /\ docs[e].htmlTemplateFilePath = ThisDoc.htmlTemplateFilePath)
            => HeadBody(trees, docs[e]) = HeadBody(last.pre, docs[e])

\* C2: whatever was called on the documents of a template, the next
\* document the cache hands out for it looks like a freshly parsed one.
C2_CachePrototypeUnchanged ==
    \A key \in TemplateArgs :
        HasOwnProperty(cache, key) =>
            LET next  == NextFromCache(key)
                fresh == FreshlyParsed(key)
            IN  View(next.trees, next.doc) = View(fresh.trees, fresh.doc)

ScriptNodes(tr, doc) ==
    SelectSeq(ChildNodes(tr, doc.headNode) \o ChildNodes(tr, doc.bodyNode),
              LAMBDA n : n.nodeName = "script")

\* C4: no chunk name is carried by more than one script node of a document.
C4_NoDuplicateScriptNode ==
    \A d \in 1..Len(docs) :
        LET nodes == ScriptNodes(trees, docs[d])
        IN  \A i, j \in 1..Len(nodes) :
                (i # j /\ nodes[i].attr # <<>>)
                => StripExt(nodes[i].attr) # StripExt(nodes[j].attr)

SameCallAgain ==
    /\ IsEnsure
    /\ last.prevOp = "ensureRequires"
    /\ last.prevDoc = last.doc
    /\ last.prevRequires = last.requires

MarkerInTree(tr, marker) ==
    marker # NullNode /\ FindIndex(ChildNodes(tr, marker.parentNode), marker) >= 0

ScriptLeftOver == LeftOver(last.requires, last.preDoc.scriptResources)

StyleLeftOver == LeftOver(last.requires, last.preDoc.stylesResources)

\* C6: when the SCRIPT marker is in the tree and names are left over, the
\* script pass puts one script node per left-over name, in input order,
\* where the marker was, the other siblings keep their places, and the
\* marker is in the tree no more.
C6_MarkerConsumed ==
    LET marker == last.preDoc.scriptInjectCommentNode
    IN  (IsEnsure /\ MarkerInTree(last.pre, marker) /\ ScriptLeftOver # <<>>) =>
            LET before == ChildNodes(last.pre, marker.parentNode)
                after  == ChildNodes(last.afterScripts, marker.parentNode)
                at     == IndexIn(before, marker)
                n      == Len(ScriptLeftOver)
                new    == SubSeq(after, at, at + n - 1)
            IN  /\ Len(after) = Len(before) - 1 + n
                /\ SubSeq(after, 1, at - 1) = SubSeq(before, 1, at - 1)
                /\ SubSeq(after, at + n, Len(after)) = SubSeq(before, at + 1, Len(before))
                /\ AllScripts(new)
                /\ Srcs(new) = ScriptLeftOver
                /\ ~MarkerInTree(trees, marker)
                /\ \A i \in 1..Len(after) : after[i].id # marker.id

\* a marker with siblings on both sides replaced by two scripts
C6_Witness ==
    LET marker == last.preDoc.scriptInjectCommentNode
    IN  /\ IsEnsure
        /\ MarkerInTree(last.pre, marker)
        /\ Len(ScriptLeftOver) = 2
        /\ IndexIn(ChildNodes(last.pre, marker.parentNode), marker) > 1
        /\ IndexIn(ChildNodes(last.pre, marker.parentNode), marker)
               < Len(ChildNodes(last.pre, marker.parentNode))

LinkCount(tr) ==
    LET Count(list) == Len(SelectSeq(list, LAMBDA n : n.nodeName = "link"))
    IN  [t \in 1..Len(tr) |-> Count(tr[t].head) + Count(tr[t].body)]

\* C7 as stated: with the extract-style flag false, ensureRequires injects
\* no link node and leaves head's children, the style resources and the
\* STYLE marker unchanged.
C7_HeadUntouchedWithoutExtract ==
    (IsEnsure /\ ~last.extract) =>
        /\ LinkCount(trees) = LinkCount(last.pre)
        /\ ChildNodes(trees, ThisDoc.headNode) = ChildNodes(last.pre, ThisDoc.headNode)
        /\ ThisDoc.stylesResources = last.preDoc.stylesResources
        /\ ThisDoc.styleInjectCommentNode = last.preDoc.styleInjectCommentNode

\* the script pass injects at a SCRIPT marker whose parent is head
ScriptsGoToHead ==
    /\ last.preDoc.scriptInjectCommentNode # NullNode
    /\ last.preDoc.scriptInjectCommentNode.parentNode = last.preDoc.headNode
    /\ last.leftScripts # <<>>

\* C7 amended: with the flag false, no link node is injected, the style
\* resources and the STYLE marker are unchanged, and head's children are
\* unchanged unless the script pass injects at a SCRIPT marker in head.
C7_StylePassSkipped ==
    (IsEnsure /\ ~last.extract) =>
        /\ last.leftStyles = <<>>
        /\ LinkCount(trees) = LinkCount(last.pre)
        /\ ThisDoc.stylesResources = last.preDoc.stylesResources
        /\ ThisDoc.styleInjectCommentNode = last.preDoc.styleInjectCommentNode
        /\ ~ScriptsGoToHead =>
               ChildNodes(trees, ThisDoc.headNode) = ChildNodes(last.pre, ThisDoc.headNode)

\* a call with the flag false, a STYLE marker in the document and style
\* chunks that a style pass would have injected
C7_Witness ==
    /\ IsEnsure
    /\ ~last.extract
    /\ last.preDoc.styleInjectCommentNode # NullNode
    /\ StyleLeftOver # <<>>
    /\ last.leftScripts # <<>>

\* C8: without a SCRIPT marker the script pass appends one script node per
\* left-over name, in order, to body; without a STYLE marker the style pass
\* appends one stylesheet link per left-over name, in order, to head; the
\* children already there keep their places.
C8_FallbackAppends ==
    IsEnsure =>
        /\ last.preDoc.scriptInjectCommentNode = NullNode =>
               LET before == ChildNodes(last.pre, ThisDoc.bodyNode)
                   after  == ChildNodes(last.afterScripts, ThisDoc.bodyNode)
                   new    == SubSeq(after, Len(before) + 1, Len(after))
               IN  /\ SubSeq(after, 1, Len(before)) = before
                   /\ AllScripts(new)
                   /\ Srcs(new) = ScriptLeftOver
                   /\ ChildNodes(last.afterScripts, ThisDoc.headNode)
                          = ChildNodes(last.pre, ThisDoc.headNode)
        /\ (last.extract /\ last.preDoc.styleInjectCommentNode = NullNode) =>
               LET before == ChildNodes(last.afterScripts, ThisDoc.headNode)
                   after  == ChildNodes(trees, ThisDoc.headNode)
                   new    == SubSeq(after, Len(before) + 1, Len(after))
               IN  /\ SubSeq(after, 1, Len(before)) = before
                   /\ AllLinks(new)
                   /\ Srcs(new) = StyleLeftOver
                   /\ ChildNodes(trees, ThisDoc.bodyNode)
                          = ChildNodes(last.afterScripts, ThisDoc.bodyNode)

\* a call on a document without any marker that appended two scripts to
\* body and two links to head
C8_Witness ==
    /\ IsEnsure
    /\ last.extract
    /\ last.preDoc.scriptInjectCommentNode = NullNode
    /\ last.preDoc.styleInjectCommentNode = NullNode
    /\ Len(last.leftScripts) = 2
    /\ Len(last.leftStyles) = 2
    /\ Len(ChildNodes(last.pre, ThisDoc.headNode)) > 0

WebPluginsOf(c) == compilers[c].webPlugins

\* the entryMap record of the page a WebPlugin was made for: the page's own
\* chunk is the last of its required chunks
PageOf(webPlugin) ==
    CHOOSE e \in Range(plugin.entryMap) :
        e.name = webPlugin.requires[Len(webPlugin.requires)]

\* C9: the HTML document requested for a page is named <outputFilename>.html,
\* outputFilename being the filename the constructor resolved for the page.
C9_HtmlNamedAfterOutputFilename ==
    \A c \in Compilers :
        \A i \in 1..Len(WebPluginsOf(c)) :
            WebPluginsOf(c)[i].filename
                = PageOf(WebPluginsOf(c)[i]).filename \o <<".html">>

\* C10: with options.commonsChunk null, apply raises no error, requires
\* [pageName] for every page and registers no shared-chunk pass.
C10_NullCommonsChunkIgnored ==
    (plugin.options.commonsChunk.type = "null" /\ last.op = "apply") =>
        /\ thrown = "none"
        /\ Len(WebPluginsOf(last.arg)) >= Len(plugin.entryMap)
        /\ \A i \in 1..Len(WebPluginsOf(last.arg)) :
               Len(WebPluginsOf(last.arg)[i].requires) = 1
        /\ compilers[last.arg].commonsChunkPlugins = <<>>

----------------------------------------------------------------------------
(* Properties C11 .. C20 *)

IsApply == last.op = "apply"

\* the compiler the last apply or emit was called for
ThisCompiler == compilers[last.arg]

\* the page names of pageDir: its directories that are not ignored
DiscoveredPages ==
    { PageDir[i].name : i \in { j \in 1..Len(PageDir) :
          /\ PageDir[j].isDirectory
          /\ PageDir[j].name \notin Range(plugin.options.ignorePages) } }

\* the entry path the constructor resolves for a page
EntryPathOf(p) ==
    IF plugin.options.entry # "undefined" THEN <<plugin.options.entry>>
    ELSE <<"/pages/", p>>

ExpectedEntry(p) ==
    (IF plugin.options.preEntrys.isArray THEN plugin.options.preEntrys.items ELSE <<>>)
    \o << EntryPathOf(p) >>
    \o (IF plugin.options.postEntrys.isArray THEN plugin.options.postEntrys.items ELSE <<>>)

\* the HTML output requests of a compiler made for page p
RequestsFor(compiler, p) ==
    SelectSeq(compiler.webPlugins, LAMBDA w : w.filename = <<p, ".html">>)

\* C11: after apply, every discovered page p has the entry
\* preEntrys ++ [entryPath(p)] ++ postEntrys and exactly one HTML output
\* request of this apply, and nothing else has an entry.
C11_EntryAndRequestPerPage ==
    IsApply =>
        /\ \A p \in DiscoveredPages :
              /\ \E i \in 1..Len(ThisCompiler.entry) :
                    /\ ThisCompiler.entry[i].name = p
                    /\ ThisCompiler.entry[i].modules = ExpectedEntry(p)
              /\ Len(RequestsFor(ThisCompiler, p))
                    = Len(RequestsFor(last.preCompiler, p)) + 1
        /\ \A i \in 1..Len(ThisCompiler.entry) :
              ThisCompiler.entry[i].name \in DiscoveredPages

\* shared-chunk extraction is configured: commonsChunk is an option object
CommonsChunkConfigured == plugin.options.commonsChunk.type = "object"

\* the page a request was made for
PageNameOf(webPlugin) == webPlugin.filename[1]

\* the src attributes (mockScriptNode takes the chunk name as src) of the
\* script nodes that ensureRequires injects for the request's list into a
\* document freshly built from the request's template, in document order
InjectedSrcs(webPlugin) ==
    LET arg == IF webPlugin.template = "undefined" THEN NoPath
               ELSE webPlugin.template
        new == FreshlyParsed(arg)
        requires == [i \in 1..Len(webPlugin.requires) |-> <<webPlugin.requires[i]>>]
        r   == ensureRequires(new.trees, new.doc, requires, FALSE, new.nextId)
    IN  Srcs(SelectSeq(ScriptNodes(r.trees, r.doc),
                       LAMBDA n : \E i \in 1..Len(requires) :
                                      n.attr = requires[i]))

\* C12: the required list of a page's HTML request is [sharedName, page]
\* when shared-chunk extraction is configured and [page] otherwise, and the
\* scripts are injected in that order, the shared one first.
C12_RequiresSharedThenPage ==
    \A c \in Compilers : \A i \in 1..Len(WebPluginsOf(c)) :
        LET w == WebPluginsOf(c)[i]
            p == PageNameOf(w)
        IN  /\ p \in DiscoveredPages
            /\ w.requires = IF CommonsChunkConfigured
                            THEN <<plugin.options.commonsChunk.name, p>>
                            ELSE <<p>>
            /\ InjectedSrcs(w) = [k \in 1..Len(w.requires) |-> <<w.requires[k]>>]

C12_Witness ==
    \E c \in Compilers : \E i \in 1..Len(WebPluginsOf(c)) :
        /\ WebPluginsOf(c)[i].requires = <<"common", "home">>
        /\ InjectedSrcs(WebPluginsOf(c)[i]) = << <<"common">>, <<"home">> >>

\* C13: when shared-chunk extraction is configured, apply registers exactly
\* one shared-chunk pass, and the chunks of that pass are exactly the
\* discovered pages, whatever else the option object holds.
C13_OnePassOverAllPages ==
    (IsApply /\ CommonsChunkConfigured) =>
        LET passes == ThisCompiler.commonsChunkPlugins
        IN  /\ Len(passes) = Len(last.preCompiler.commonsChunkPlugins) + 1
            /\ SubSeq(passes, 1, Len(passes) - 1) = last.preCompiler.commonsChunkPlugins
            /\ Range(passes[Len(passes)].chunks) = DiscoveredPages
            /\ passes[Len(passes)].name = plugin.options.commonsChunk.name

IsEmit == last.op = "emit"

\* the output filename the constructor resolves for a page
OutputFilenameOf(p) ==
    IF plugin.options.filename = "function" THEN FilenameFunction(p) ELSE <<p>>

\* base joined with a file name: the two put together, with a slash between
\* them when base is not empty and does not end in one
Joined(base, fileName) ==
    IF base = <<>> \/ base[Len(base)] = "/" THEN base \o fileName
    ELSE base \o <<"/">> \o fileName

\* C14: an emit adds pagemap.json exactly when outputPagemap is true; its
\* keys are the discovered pages, the value of page p is the public path
\* joined with <outputFilename(p)>.html, and the callback is called once.
C14_PagemapJoinsPublicPath ==
    IsEmit =>
        /\ ThisCompiler.hasPagemap = plugin.options.outputPagemap
        /\ ThisCompiler.callbacks = last.preCompiler.callbacks + 1
        /\ plugin.options.outputPagemap =>
              /\ { ThisCompiler.pagemap[i].name : i \in 1..Len(ThisCompiler.pagemap) }
                    = DiscoveredPages
              /\ \A i \in 1..Len(ThisCompiler.pagemap) :
                    \/ ThisCompiler.pagemap[i].url
                          = Joined(PublicPathOf(last.arg),
                                   OutputFilenameOf(ThisCompiler.pagemap[i].name)
                                       \o <<".html">>)
                    \/ ThisCompiler.pagemap[i].url
                          = PublicPathOf(last.arg)
                              \o OutputFilenameOf(ThisCompiler.pagemap[i].name)
                              \o <<".html">>

\* C15: a template is read and parsed at most once per template argument:
\* a construction that follows one with the same argument is a cache hit
\* and parses nothing.
C15_ParsedOncePerTemplate ==
    (last.op = "new" /\ last.prevOp = "new" /\ last.prevArg = last.arg
        /\ last.error = "none") =>
        last.hit /\ trees = last.pre

IsSerialize == last.op = "serialize"

IsBlankText(node) == node.nodeName = "#text" /\ Len(Trim(node.data)) = 0

IsPlainComment(node) == node.nodeName = "#comment" /\ ~StartsWithIf(node.data)

\* no blank text, no comment but conditional ones, and only trimmed text in
\* a child list and in the child lists below it
RECURSIVE Compact(_)
Compact(list) ==
    \A i \in 1..Len(list) :
        /\ ~IsBlankText(list[i])
        /\ ~IsPlainComment(list[i])
        /\ list[i].nodeName = "#text" => list[i].data = Trim(list[i].data)
        /\ Compact(list[i].childNodes)

Ids(list) == [i \in 1..Len(list) |-> list[i].id]

\* the elements and conditional comments of a list
Kept(list) ==
    SelectSeq(list, LAMBDA n : n.nodeName # "#text" /\ ~IsPlainComment(n))

\* C16: after serialize in production mode no blank text and no
\* non-conditional comment is left under head or body at any depth, text is
\* trimmed, and elements and conditional comments keep their order.
C16_CompactAtAnyDepth ==
    (IsSerialize /\ last.production) =>
        LET now == HeadBody(trees, ThisDoc)
            was == HeadBody(last.pre, last.preDoc)
        IN  /\ Compact(now.head) /\ Compact(now.body)
            /\ Ids(Kept(now.head)) = Ids(Kept(was.head))
            /\ Ids(Kept(now.body)) = Ids(Kept(was.body))

IsNewlineText(node) == node.nodeName = "#text" /\ HasNewline(node.data)

\* every non-text node of the list comes right after a text node that
\* holds a newline
NewlineBeforeEach(list) ==
    \A i \in 1..Len(list) :
        list[i].nodeName # "#text" => (i > 1 /\ IsNewlineText(list[i - 1]))

\* a node that follows newline text in `was` still follows that text node
NoNewlineTwice(was, now) ==
    \A i \in 2..Len(was) :
        (was[i].nodeName # "#text" /\ IsNewlineText(was[i - 1])) =>
            \E j \in 2..Len(now) :
                now[j].id = was[i].id /\ now[j - 1].id = was[i - 1].id

\* C17 as claimed: after serialize in development mode every non-text child
\* of head and of body comes right after a newline text node, and none was
\* inserted where the preceding sibling already was newline text.
C17_NewlineBeforeEveryChild ==
    (IsSerialize /\ ~last.production) =>
        LET now == HeadBody(trees, ThisDoc)
            was == HeadBody(last.pre, last.preDoc)
        IN  /\ NewlineBeforeEach(now.head) /\ NewlineBeforeEach(now.body)
            /\ NoNewlineTwice(was.head, now.head)
            /\ NoNewlineTwice(was.body, now.body)

\* the place of the last non-text node of the list that follows newline
\* text, 0 when there is none: where pretty, coming from the end, returns
Boundary(list) ==
    LET places == {0} \cup { i \in 2..Len(list) :
                      list[i].nodeName # "#text" /\ IsNewlineText(list[i - 1]) }
    IN  CHOOSE k \in places : \A j \in places : j <= k

\* the list with a new node, written 0, before each non-text node after
\* place k, every node of the list being written as its id
RECURSIVE WithNewlinesAfter(_, _, _)
WithNewlinesAfter(list, i, k) ==
    IF i > Len(list) THEN <<>>
    ELSE (IF i > k /\ list[i].nodeName # "#text" THEN <<0, list[i].id>>
          ELSE <<list[i].id>>)
         \o WithNewlinesAfter(list, i + 1, k)

\* the list as ids, a node that `was` does not hold being written 0
AsIdsOf(was, now) ==
    [i \in 1..Len(now) |->
        IF \E j \in 1..Len(was) : was[j].id = now[i].id THEN now[i].id ELSE 0]

\* the nodes that `was` does not hold
NewNodes(was, now) ==
    SelectSeq(now, LAMBDA n : \A j \in 1..Len(was) : was[j].id # n.id)

PrettyFrom(was, now) ==
    /\ AsIdsOf(was, now) = WithNewlinesAfter(was, 1, Boundary(was))
    /\ SelectSeq(now, LAMBDA n : \E j \in 1..Len(was) : was[j].id = n.id) = was
    /\ \A i \in 1..Len(NewNodes(was, now)) :
          Shape(NewNodes(was, now)[i]) = TextNode(<<"\n">>)

\* C17: serialize in development mode puts a newline text node before each
\* non-text child of head and of body that comes after the last non-text
\* child already preceded by newline text; that child and the children
\* before it are left as they are, and no node is changed or removed.
C17_NewlineAfterBoundary ==
    (IsSerialize /\ ~last.production) =>
        LET now == HeadBody(trees, ThisDoc)
            was == HeadBody(last.pre, last.preDoc)
        IN  PrettyFrom(was.head, now.head) /\ PrettyFrom(was.body, now.body)

\* a child before the boundary got no newline and one after it did
C17_Witness ==
    /\ IsSerialize /\ ~last.production
    /\ LET now == HeadBody(trees, ThisDoc).body
           was == HeadBody(last.pre, last.preDoc).body
       IN  /\ Boundary(was) > 1
           /\ Len(now) > Len(was)
           /\ ~NewlineBeforeEach(now)

\* C18: a construction with a path whose file cannot be read raises the
\* file system's error, stores nothing in the cache, leaves the cache's
\* entries as they were, and builds no document from the default skeleton.
C18_MissingTemplateRaises ==
    [][ \A arg \in { AbsPath, RelPath } :
          (NewHTMLDocument(arg) /\ file = NoFile /\ ~HasOwnProperty(cache, arg)) =>
              /\ last'.error = "ENOENT"
              /\ cache' = cache
              /\ docs' = docs
              /\ trees' = trees ]_vars

\* a missing template made a construction fail while the cache held the
\* default template's entry
C18_Witness ==
    /\ last.op = "new" /\ last.error = "ENOENT"
    /\ HasOwnProperty(cache, NoPath)
    /\ Len(docs) = 1

\* the comments of a list that the scan takes for markers of a kind
MarkersOf(list, kind) ==
    SelectSeq(list, LAMBDA n : /\ Resource(n).type = "comment"
                               /\ Resource(n).data = <<kind>>)

LastOrNull(list) == IF list = <<>> THEN NullNode ELSE list[Len(list)]

\* the nodes of `list` but the one of the given id, as ids
IdsWithout(list, id) == Ids(SelectSeq(list, LAMBDA n : n.id # id))

\* the nodes of `list` that are not in `nodes`, as ids
IdsNotIn(list, nodes) ==
    Ids(SelectSeq(list, LAMBDA n : \A i \in 1..Len(nodes) : nodes[i].id # n.id))

\* C19: of several markers of a kind the parse records the last one, head's
\* children being scanned before body's, and raises no error; ensureRequires
\* injects where that last marker is, and the earlier markers and all other
\* nodes stay in place.
C19_LastMarkerWins ==
    /\ (last.op = "new" /\ last.error = "none" /\ ~last.hit) =>
          LET all == ChildNodes(trees, ThisDoc.headNode)
                        \o ChildNodes(trees, ThisDoc.bodyNode)
          IN  /\ ThisDoc.scriptInjectCommentNode = LastOrNull(MarkersOf(all, "SCRIPT"))
              /\ ThisDoc.styleInjectCommentNode = LastOrNull(MarkersOf(all, "STYLE"))
    /\ (IsEnsure /\ MarkerInTree(last.pre, last.preDoc.scriptInjectCommentNode)
           /\ ScriptLeftOver # <<>>) =>
          LET marker == last.preDoc.scriptInjectCommentNode
              was    == HeadBody(last.pre, last.preDoc)
              now    == HeadBody(last.afterScripts, last.preDoc)
              before == ChildNodes(last.pre, marker.parentNode)
              after  == ChildNodes(last.afterScripts, marker.parentNode)
              at     == IndexIn(before, marker)
          IN  /\ SubSeq(after, at, at + Len(last.leftScripts) - 1) = last.leftScripts
              /\ IdsNotIn(now.head, last.leftScripts) = IdsWithout(was.head, marker.id)
              /\ IdsNotIn(now.body, last.leftScripts) = IdsWithout(was.body, marker.id)

\* a document with SCRIPT markers in head and in body got its scripts at
\* the last marker, and the earlier markers are still where they were
C19_Witness ==
    /\ IsEnsure /\ ScriptLeftOver # <<>>
    /\ MarkerInTree(last.pre, last.preDoc.scriptInjectCommentNode)
    /\ LET was == HeadBody(last.pre, last.preDoc)
           now == HeadBody(trees, ThisDoc)
       IN  /\ Len(MarkersOf(was.head, "SCRIPT")) = 1
           /\ Len(MarkersOf(was.body, "SCRIPT")) = 2
           /\ Len(MarkersOf(now.head, "SCRIPT")) = 1
           /\ Len(MarkersOf(now.body, "SCRIPT")) = 1
           /\ now.body[3].nodeName = "script"

\* the ids of the markers a call consumes: the marker of a pass that has
\* names left over and finds its marker in the tree
ConsumedMarkers ==
    (IF /\ ScriptLeftOver # <<>>
        /\ MarkerInTree(last.pre, last.preDoc.scriptInjectCommentNode)
     THEN { last.preDoc.scriptInjectCommentNode.id } ELSE {})
    \cup
    (IF /\ last.extract /\ StyleLeftOver # <<>>
        /\ MarkerInTree(last.afterScripts, last.preDoc.styleInjectCommentNode)
     THEN { last.preDoc.styleInjectCommentNode.id } ELSE {})

\* every node of `was` but the consumed markers is in `now`, in the order
\* it had
OnlyAdds(was, now) ==
    Ids(SelectSeq(now, LAMBDA n : \E j \in 1..Len(was) : was[j].id = n.id))
        = Ids(SelectSeq(was, LAMBDA n : n.id \notin ConsumedMarkers))

\* C20: ensureRequires removes or reorders no node but the marker it
\* consumes: a call made after the marker was consumed only adds nodes.
C20_OnlyMarkerRemoved ==
    IsEnsure =>
        LET was == HeadBody(last.pre, last.preDoc)
            now == HeadBody(trees, ThisDoc)
        IN  OnlyAdds(was.head, now.head) /\ OnlyAdds(was.body, now.body)

----------------------------------------------------------------------------
(* Properties C21 .. C22 *)

\* the head and body lists before the pretty passes and as they are now
ListsWere == HeadBody(last.pre, last.preDoc)
ListsNow  == HeadBody(trees, docs[1])

NonText(list) == SelectSeq(list, LAMBDA n : n.nodeName # "#text")

\* the nodes of `was` are all in `now`, unchanged and in the order they had,
\* and the new nodes are newline text, no more of them than non-text nodes
AtMostOneNewlineEach(was, now) ==
    /\ SelectSeq(now, LAMBDA n : \E j \in 1..Len(was) : was[j].id = n.id) = was
    /\ \A i \in 1..Len(NewNodes(was, now)) :
          Shape(NewNodes(was, now)[i]) = TextNode(<<"\n">>)
    /\ Len(NewNodes(was, now)) <= Len(NonText(was))
    /\ \A i \in 1..Len(now) :
          (\A j \in 1..Len(was) : was[j].id # now[i].id) =>
              /\ i < Len(now)
              /\ now[i + 1].nodeName # "#text"
              /\ \E j \in 1..Len(was) : was[j].id = now[i + 1].id

PrettyDone == loop.pc = "done"

\* C21: the pretty passes of serialize come to an end for every head and
\* body child list, although they insert into the list they walk; at every
\* moment no non-text child has got more than one newline text node, and
\* every child is still there, in the order it had; the result is that of
\* pretty.
C21_PrettyTerminates ==
    /\ <>PrettyDone
    /\ [](/\ AtMostOneNewlineEach(ListsWere.head, ListsNow.head)
          /\ AtMostOneNewlineEach(ListsWere.body, ListsNow.body)
          /\ PrettyDone =>
                trees = serialize(last.pre, last.preDoc, FALSE,
                                  1 + NodeCount(file)).trees)

\* both passes are over and each put newlines into its list
C21_Witness ==
    /\ PrettyDone
    /\ Len(NonText(ListsWere.head)) >= 2
    /\ Len(ListsNow.head) = Len(ListsWere.head) + 2
    /\ Len(ListsNow.body) > Len(ListsWere.body)

\* C22: serialize and ensureRequires, called for a page of compiler c, use
\* the production flag and the extract-style flag of c, whatever compiler
\* the plugin was applied to after c.
C22_FlagsOfOwnCompiler ==
    /\ IsSerialize => last.production = isProductionCompiler(last.arg)
    /\ IsEnsure => last.extract = isExtractStyleCompiler(last.arg)

====
